---- MODULE Spec2Model ----
(***************************************************************************)
(* Model of scripts/sra_fetch.py: reading, validating and deduplicating    *)
(* the accession list, the per-accession pipeline process_one_accession    *)
(* (is_done, prefetch, fasterq-dump, cleanup, append_log) and the          *)
(* ThreadPoolExecutor loop of main().                                      *)
(*                                                                         *)
(* Text is a sequence of one-character strings.  "u0663" stands for the    *)
(* single character U+0663 (ARABIC-INDIC DIGIT THREE), a decimal digit     *)
(* that is not an ASCII digit; "LF" is the line feed, "TAB" the tab.       *)
(***************************************************************************)
EXTENDS Integers, Sequences, FiniteSets, TLC

VARIABLES
    run,         \* which run of main() over the accession file this is (1, 2, ...)
    prev,        \* per accession: how the run before this one left it (<<>> in run 1)
    file,        \* content of the accession file (test_path), a sequence of characters
    cfg,         \* the settings of main(): dry_run, delete_tmp_after, delete_sra_after, jobs
    pcMain,      \* position of main()
    new_list,    \* main's new_list: the validated identifiers, duplicates still in
    acc_list,    \* main's acc_list once prepared (validated, deduplicated)
    nsubmitted,  \* how many of acc_list have been submitted to the executor
    numThreads,  \* worker threads the executor has spawned
    queue,       \* the executor's work queue (submitted, not yet taken)
    pc,          \* per accession: position of its process_one_accession call
    fs,          \* per accession: the state of <out>/<acc>, <tmp>/<acc>, <sra>/<acc>
    ev,          \* per accession: the calls its pipeline has made so far
    exc,         \* per accession: the exception being handled or raised (<<>> if none)
    rec,         \* per accession: the status of the log record append_log is writing
    result,      \* per accession: the tuple its call returned (<<>> if none)
    LOG_LOCK,    \* holder of LOG_LOCK, or NoAcc
    log,         \* the log file: the fragments written so far
    ok,          \* main's counter ok
    failed,      \* main's counter failed
    outcomes,    \* the tuples main got from fut.result(), in collection order
    summary      \* the final "Done." line (<<>> until printed)

vars == <<run, prev, file, cfg, pcMain, new_list, acc_list, nsubmitted, numThreads, queue, pc, fs, ev,
          exc, rec, result, LOG_LOCK, log, ok, failed, outcomes, summary>>

-----------------------------------------------------------------------------
(* Bounds of the model *)

\* most accessions in an input file of the pipeline specification
MaxAcc == 2
\* largest concurrency limit (jobs) of the pipeline specification
MaxJobs == 2
\* most pieces an input file of the input-preparation specification is made of
MaxPieces == 4
\* most identifiers, repeats counted, in an input file of the deduplication specification
MaxItems == 4
\* most consecutive runs of main() in the re-run specification
MaxRuns == 2

-----------------------------------------------------------------------------
(* Characters and strings *)

Range(s) == {s[i] : i \in 1..Len(s)}

AsciiDigit == {"0", "1", "2", "3", "4", "5", "6", "7", "8", "9"}
\* Python's \d on str patterns: every Unicode decimal digit
ReDigit(c) == c \in AsciiDigit \cup {"u0663"}
\* str.isspace(): what str.strip() and str.split() treat as white space
IsSpace(c) == c \in {" ", "TAB", "LF"}

\* str.upper(), character by character
UpperChar(c) ==
    CASE c = "s" -> "S"
      [] c = "r" -> "R"
      [] c = "e" -> "E"
      [] c = "d" -> "D"
      [] c = "b" -> "B"
      [] OTHER -> c

Upper(s) == [i \in 1..Len(s) |-> UpperChar(s[i])]

RECURSIVE LStrip(_)
LStrip(s) == IF s # <<>> /\ IsSpace(Head(s)) THEN LStrip(Tail(s)) ELSE s

RECURSIVE RStrip(_)
RStrip(s) ==
    IF s # <<>> /\ IsSpace(s[Len(s)]) THEN RStrip(SubSeq(s, 1, Len(s) - 1)) ELSE s

\* str.strip()
Strip(s) == RStrip(LStrip(s))

\* the lines a text-mode file yields, each with its line feed
RECURSIVE FileLines(_, _)
FileLines(s, cur) ==
    IF s = <<>> THEN (IF cur = <<>> THEN <<>> ELSE <<cur>>)
    ELSE IF Head(s) = "LF" THEN <<Append(cur, "LF")>> \o FileLines(Tail(s), <<>>)
    ELSE FileLines(Tail(s), Append(cur, Head(s)))

\* line.split("#", 1)[0]
RECURSIVE BeforeHash(_)
BeforeHash(s) ==
    IF s = <<>> \/ Head(s) = "#" THEN <<>> ELSE <<Head(s)>> \o BeforeHash(Tail(s))

\* str.split() with no separator: the maximal runs of non-space characters
RECURSIVE SplitWs(_, _)
SplitWs(s, cur) ==
    IF s = <<>> THEN (IF cur = <<>> THEN <<>> ELSE <<cur>>)
    ELSE IF IsSpace(Head(s))
         THEN (IF cur = <<>> THEN <<>> ELSE <<cur>>) \o SplitWs(Tail(s), <<>>)
         ELSE SplitWs(Tail(s), Append(cur, Head(s)))

RECURSIVE ReadLines(_)
ReadLines(lines) ==
    IF lines = <<>> THEN <<>>
    ELSE LET line == Strip(BeforeHash(Head(lines)))
         IN  (IF line = <<>> THEN <<>> ELSE SplitWs(line, <<>>)) \o ReadLines(Tail(lines))

read_accessions(f) == ReadLines(FileLines(f, <<>>))

\* re.fullmatch(r"(SRR|ERR|DRR)\d+", acc) is not None
validate_accessions(acc) ==
    /\ Len(acc) >= 4
    /\ SubSeq(acc, 1, 3) \in {<<"S", "R", "R">>, <<"E", "R", "R">>, <<"D", "R", "R">>}
    /\ \A i \in 4..Len(acc) : ReDigit(acc[i])

\* the loop of dedup_preserve_order: seen is the set, out the list built so far
RECURSIVE DedupLoop(_, _, _)
DedupLoop(items, seen, out) ==
    IF items = <<>> THEN out
    ELSE IF Head(items) \notin seen
         THEN DedupLoop(Tail(items), seen \cup {Head(items)}, Append(out, Head(items)))
         ELSE DedupLoop(Tail(items), seen, out)

\* faulty variant: only a repeat of the item just before is dropped
RECURSIVE DedupAdjacent(_)
DedupAdjacent(items) ==
    IF Len(items) <= 1 THEN items
    ELSE LET front == DedupAdjacent(SubSeq(items, 1, Len(items) - 1))
         IN  IF items[Len(items)] = items[Len(items) - 1] THEN front
             ELSE Append(front, items[Len(items)])

dedup_preserve_order(items) == DedupLoop(items, {}, <<>>)

\* main(): the validation loop over the tokens read, then the deduplication
RECURSIVE ValidatedList(_)
ValidatedList(toks) ==
    IF toks = <<>> THEN <<>>
    ELSE LET acc == Upper(Strip(Head(toks)))
         IN  (IF validate_accessions(acc) THEN <<acc>> ELSE <<>>)
             \o ValidatedList(Tail(toks))

PreparedList(f) == dedup_preserve_order(ValidatedList(read_accessions(f)))

-----------------------------------------------------------------------------
(* Messages: sequences of words; "LF" is a line feed inside a message *)

NoAcc == <<>>

\* what the external tools may print on stderr when they exit non-zero
Stderrs == {<<"disk", "LF", "full">>}

\* faulty variant: the captured stderr is left out of the exception
CommandFailedNoStderr(tool, stderr) == <<"Command failed:", tool>>

\* RuntimeError(f"Command failed: {printable}\n{result.stderr}")
CommandFailed(tool, stderr) == <<"Command failed:", tool, "LF">> \o stderr
\* FileNotFoundError(f"Missing SRA file: {sra_path}")
MissingSra == <<"Missing SRA file:", "sra_path">>
\* what os.makedirs, shutil.rmtree and open raise when they fail
OSErrorOf(call) == <<"OSError:", call>>

\* str(e).replace("\n", " ")
Flatten(msg) == [i \in 1..Len(msg) |-> IF msg[i] = "LF" THEN " " ELSE msg[i]]

\* whether needle occurs in msg as a contiguous part
Contains(msg, needle) ==
    \E i \in 0..(Len(msg) - Len(needle)) : SubSeq(msg, i + 1, i + Len(needle)) = needle

-----------------------------------------------------------------------------
(* Configuration and file system *)

\* the settings main() hard-codes and the operator edits
Configs ==
    [dry_run : BOOLEAN, delete_tmp_after : BOOLEAN, delete_sra_after : BOOLEAN,
     jobs : 1..MaxJobs]

\* the three subtrees of one accession: the directories <out>/<acc>, <tmp>/<acc>,
\* <sra>/<acc>, the archive object <acc>.sra and the outputs <acc>.fastq, <acc>_1.fastq
\* (each "none", "empty" or "data")
FreshFs == [outDir |-> FALSE, tmpDir |-> FALSE, sraDir |-> FALSE, sra |-> FALSE,
            se |-> "none", pe1 |-> "none"]
\* left by an earlier complete run, single-end and paired-end
DoneSeFs == [FreshFs EXCEPT !.outDir = TRUE, !.se = "data"]
DonePeFs == [FreshFs EXCEPT !.outDir = TRUE, !.pe1 = "data"]
\* left by an earlier run that was cut short during the conversion
PartialFs == [outDir |-> TRUE, tmpDir |-> TRUE, sraDir |-> TRUE, sra |-> TRUE,
              se |-> "empty", pe1 |-> "none"]
InitFs == {FreshFs, DoneSeFs, DonePeFs, PartialFs}

\* os.path.exists and os.path.getsize on an output file
Exists(f) == f # "none"
GetSize(f) == IF f = "data" THEN 1 ELSE 0

\* faulty variant: an output file counts as done whatever its size
is_doneAnySize(d) == Exists(d.se) \/ Exists(d.pe1)

\* faulty variant: only the single-end file is looked at
is_doneSingleEndOnly(d) == Exists(d.se) /\ GetSize(d.se) > 0

\* SraDownloader.is_done on the subtrees d of one accession
is_done(d) ==
    IF Exists(d.se) /\ GetSize(d.se) > 0 THEN TRUE
    ELSE IF Exists(d.pe1) /\ GetSize(d.pe1) > 0 THEN TRUE
    ELSE FALSE

\* the accessions of a run on input file f: the per-accession state is kept for these
AccsOf(f) == Range(PreparedList(f))
Accs == DOMAIN pc

-----------------------------------------------------------------------------
(* Input files of the pipeline specification *)

AccTexts == << <<"S", "R", "R", "1">>, <<"e", "r", "r", "2">>,
               <<"D", "R", "R", "3">>, <<"E", "R", "R", "9">> >>

\* the first k accession texts, one per line
RECURSIVE FirstLines(_)
FirstLines(k) ==
    IF k = 0 THEN <<>> ELSE FirstLines(k - 1) \o AccTexts[k] \o <<"LF">>

\* "SRR1 BAD9 # ERR2" / "srr1": one accession twice, a bad token and a comment
NoisyFile ==
    <<"S", "R", "R", "1", " ", "B", "A", "D", "9", " ", "#", " ", "E", "R", "R", "2", "LF",
      "s", "r", "r", "1", "LF">>

MainFiles == {FirstLines(k) : k \in 0..MaxAcc} \cup {NoisyFile}

-----------------------------------------------------------------------------
(* Initial state: main() is about to read the accession file *)

InitRun ==
    /\ run = 1
    /\ prev = <<>>
    /\ pcMain = "start"
    /\ new_list = <<>>
    /\ acc_list = <<>>
    /\ nsubmitted = 0
    /\ numThreads = 0
    /\ queue = <<>>
    /\ pc = [a \in AccsOf(file) |-> "unsubmitted"]
    /\ ev = [a \in AccsOf(file) |-> <<>>]
    /\ exc = [a \in AccsOf(file) |-> <<>>]
    /\ rec = [a \in AccsOf(file) |-> ""]
    /\ result = [a \in AccsOf(file) |-> <<>>]
    /\ LOG_LOCK = NoAcc
    /\ log = <<>>
    /\ ok = 0
    /\ failed = 0
    /\ outcomes = <<>>
    /\ summary = <<>>

Init ==
    /\ file \in MainFiles
    /\ cfg \in Configs
    /\ fs \in [AccsOf(file) -> InitFs]
    /\ InitRun

-----------------------------------------------------------------------------
(* main(): preparing the list and submitting it *)

\* lines 174-195: read, validate, deduplicate; stop when nothing is left
Prepare ==
    /\ pcMain = "start"
    /\ new_list' = ValidatedList(read_accessions(file))
    /\ acc_list' = dedup_preserve_order(new_list')
    /\ pcMain' = IF acc_list' = <<>> THEN "no_accessions" ELSE "submit"
    /\ UNCHANGED <<run, prev, file, cfg, nsubmitted, numThreads, queue, pc, fs, ev, exc, rec, result,
                   LOG_LOCK, log, ok, failed, outcomes, summary>>

\* faulty variant: every submit starts a thread, whatever max_workers is
AdjustThreadCountUnbounded(n) == n + 1

\* ThreadPoolExecutor(max_workers=jobs): a submit starts a new worker thread
\* while fewer than max_workers exist
AdjustThreadCount(n) == IF n < cfg.jobs THEN n + 1 ELSE n

\* lines 199-202: ex.submit(process_one_accession, acc, ...) for the next acc
Submit ==
    /\ pcMain = "submit"
    /\ LET acc == acc_list[nsubmitted + 1] IN
        /\ queue' = Append(queue, acc)
        /\ pc' = [pc EXCEPT ![acc] = "queued"]
    /\ numThreads' = AdjustThreadCount(numThreads)
    /\ nsubmitted' = nsubmitted + 1
    /\ pcMain' = IF nsubmitted' = Len(acc_list) THEN "collect" ELSE "submit"
    /\ UNCHANGED <<run, prev, file, cfg, new_list, acc_list, fs, ev, exc, rec, result, LOG_LOCK, log, ok,
                   failed, outcomes, summary>>

-----------------------------------------------------------------------------
(* process_one_accession(acc, ...) on a worker thread *)

\* positions of a call that has started and not yet returned or raised
RunningPcs == {"prefetch", "fasterq", "rm_tmp", "rm_sra", "log", "locked", "writing"}
FinishedPcs == {"returned", "raised"}

Running == {a \in Accs : pc[a] \in RunningPcs}

\* the except clause of process_one_accession: e is handled by writing a FAIL record
Except(a, e) ==
    /\ exc' = [exc EXCEPT ![a] = e]
    /\ rec' = [rec EXCEPT ![a] = "FAIL"]
    /\ pc' = [pc EXCEPT ![a] = "log"]

\* faulty variant: the archive-cache cleanup follows the working-subtree cleanup
\* whatever delete_sra_after is
AfterRmTmpAlways == "rm_sra"

\* faulty variant: the OK record is written straight after the conversion
AfterDumpNoCleanup == "log"

\* the step that follows fasterq_dump_one and each cleanup (lines 116-122)
AfterDump == IF cfg.delete_tmp_after THEN "rm_tmp"
             ELSE IF cfg.delete_sra_after THEN "rm_sra" ELSE "log"
AfterRmTmp == IF cfg.delete_sra_after THEN "rm_sra" ELSE "log"

\* faulty variant: the pool takes no further call once a call has hit an exception
IdleThreadFailFast ==
    /\ Cardinality({a \in Accs : pc[a] \in RunningPcs}) < numThreads
    /\ \A b \in Accs : exc[b] = <<>>

\* a worker thread of the pool is free to take the next call from the queue
IdleThread == Cardinality(Running) < numThreads

\* a worker thread takes the call from the queue; lines 102-107: is_done decides
Start(a) ==
    /\ queue # <<>> /\ Head(queue) = a
    /\ IdleThread
    /\ queue' = Tail(queue)
    /\ ev' = [ev EXCEPT ![a] = Append(@, "is_done")]
    /\ IF is_done(fs[a])
       THEN /\ rec' = [rec EXCEPT ![a] = "SKIP"]
            /\ pc' = [pc EXCEPT ![a] = "log"]
       ELSE /\ rec' = rec
            /\ pc' = [pc EXCEPT ![a] = "prefetch"]
    /\ UNCHANGED <<run, prev, file, cfg, new_list, pcMain, acc_list, nsubmitted, numThreads, fs, exc, result,
                   LOG_LOCK, log, ok, failed, outcomes, summary>>

\* what run_command leaves in ev when it executes tool and gets this exit status
Executed(tool, status) ==
    <<"run_command " \o tool, "exec " \o tool, IF status = 0 THEN "exit 0" ELSE "exit 1">>

\* prefetch_one (lines 22-25) with run_command (lines 137-152)
Prefetch(a) ==
    /\ pc[a] = "prefetch"
    /\ IF cfg.dry_run
       THEN /\ ev' = [ev EXCEPT ![a] = Append(@, "run_command prefetch")]
            /\ pc' = [pc EXCEPT ![a] = "fasterq"]
            /\ UNCHANGED <<fs, exc, rec>>
       ELSE \/ \* exit status 0, the archive object is in the cache
               /\ ev' = [ev EXCEPT ![a] = @ \o Executed("prefetch", 0)]
               /\ fs' = [fs EXCEPT ![a].sraDir = TRUE, ![a].sra = TRUE]
               /\ pc' = [pc EXCEPT ![a] = "fasterq"]
               /\ UNCHANGED <<exc, rec>>
            \/ \* exit status 0, but no <acc>.sra was written
               /\ ev' = [ev EXCEPT ![a] = @ \o Executed("prefetch", 0)]
               /\ fs' = [fs EXCEPT ![a].sraDir = TRUE]
               /\ pc' = [pc EXCEPT ![a] = "fasterq"]
               /\ UNCHANGED <<exc, rec>>
            \/ \* non-zero exit status
               \E stderr \in Stderrs :
                  /\ ev' = [ev EXCEPT ![a] = @ \o Executed("prefetch", 1)]
                  /\ Except(a, CommandFailed("prefetch", stderr))
                  /\ fs' = fs
    /\ UNCHANGED <<run, prev, file, cfg, new_list, pcMain, acc_list, nsubmitted, numThreads, queue, result,
                   LOG_LOCK, log, ok, failed, outcomes, summary>>

\* the try block goes on to position next; reaching "log" there is line 122
GoOn(a, next) ==
    /\ pc' = [pc EXCEPT ![a] = next]
    /\ rec' = [rec EXCEPT ![a] = IF next = "log" THEN "OK" ELSE @]
    /\ exc' = exc

\* faulty variant: the archive object is required in a dry run too
SraMissingAlsoDry(d) == ~d.sra

\* line 36: not self.dry_run and not os.path.exists(sra_path)
SraMissing(d) == ~cfg.dry_run /\ ~d.sra

\* fasterq_dump_one (lines 27-47) with run_command (lines 137-152)
FasterqDump(a) ==
    /\ pc[a] = "fasterq"
    /\ LET made == [fs EXCEPT ![a].outDir = TRUE, ![a].tmpDir = TRUE] IN
       \/ \* os.makedirs(out_dir_acc) raises
          /\ ~fs[a].outDir
          /\ ev' = [ev EXCEPT ![a] = Append(@, "makedirs failed")]
          /\ fs' = fs
          /\ Except(a, OSErrorOf("makedirs"))
       \/ \* os.makedirs(tmp_dir_acc) raises
          /\ ~fs[a].tmpDir
          /\ ev' = [ev EXCEPT ![a] = Append(@, "makedirs failed")]
          /\ fs' = [fs EXCEPT ![a].outDir = TRUE]
          /\ Except(a, OSErrorOf("makedirs"))
       \/ \* the archive object is missing on a real run
          /\ SraMissing(fs[a])
          /\ ev' = [ev EXCEPT ![a] = @ \o <<"makedirs", "missing sra">>]
          /\ fs' = made
          /\ Except(a, MissingSra)
       \/ \* dry run: the command is printed, not executed
          /\ ~SraMissing(fs[a]) /\ cfg.dry_run
          /\ ev' = [ev EXCEPT ![a] = @ \o <<"makedirs", "run_command fasterq-dump">>]
          /\ fs' = made
          /\ GoOn(a, AfterDump)
       \/ \* real run, the command is executed
          /\ ~SraMissing(fs[a]) /\ ~cfg.dry_run
          /\ \/ \* exit status 0, single-end or paired-end output
                \E out \in {"se", "pe1"} :
                   /\ ev' = [ev EXCEPT ![a] = @ \o <<"makedirs">>
                                                \o Executed("fasterq-dump", 0)]
                   /\ fs' = IF out = "se" THEN [made EXCEPT ![a].se = "data"]
                                         ELSE [made EXCEPT ![a].pe1 = "data"]
                   /\ GoOn(a, AfterDump)
             \/ \* non-zero exit status
                \E stderr \in Stderrs :
                   /\ ev' = [ev EXCEPT ![a] = @ \o <<"makedirs">>
                                                \o Executed("fasterq-dump", 1)]
                   /\ fs' = made
                   /\ Except(a, CommandFailed("fasterq-dump", stderr))
    /\ UNCHANGED <<run, prev, file, cfg, new_list, pcMain, acc_list, nsubmitted, numThreads, queue, result,
                   LOG_LOCK, log, ok, failed, outcomes, summary>>

\* the directory safe_rmtree is called on, and the subtrees without it
DirExists(d, which) == IF which = "tmp" THEN d.tmpDir ELSE d.sraDir
Removed(d, which) == IF which = "tmp" THEN [d EXCEPT !.tmpDir = FALSE]
                     ELSE [d EXCEPT !.sraDir = FALSE, !.sra = FALSE]

\* faulty variant: dry_run is not looked at before deleting
SkipsDeleteNoDry(d, which) == ~DirExists(d, which)

\* the two early returns of safe_rmtree (lines 130-134)
SkipsDelete(d, which) == ~DirExists(d, which) \/ cfg.dry_run

\* faulty variant: safe_rmtree is given the root directory, not the one of the accession
RmtreeOfRoot(a, which) == [b \in DOMAIN fs |-> Removed(fs[b], which)]

\* shutil.rmtree(path) on tmp_dir_acc or sra_dir_acc (lines 113-114)
RmtreeOf(a, which) == [fs EXCEPT ![a] = Removed(@, which)]

\* faulty variant: an error of shutil.rmtree is ignored and the pipeline goes on
RmtreeErrorIgnored(a, next) == GoOn(a, next)

\* shutil.rmtree raises: nothing catches it before the except clause (line 125)
RmtreeRaised(a, next) == Except(a, OSErrorOf("rmtree"))

\* safe_rmtree(path, dry_run) (lines 129-135) on <tmp>/<acc> or <sra>/<acc>
SafeRmtree(a, which, next) ==
    IF SkipsDelete(fs[a], which)
    THEN /\ ev' = [ev EXCEPT ![a] = Append(@, "safe_rmtree " \o which)]
         /\ fs' = fs
         /\ GoOn(a, next)
    ELSE \/ /\ ev' = [ev EXCEPT ![a] = @ \o <<"safe_rmtree " \o which, "rmtree " \o which>>]
            /\ fs' = RmtreeOf(a, which)
            /\ GoOn(a, next)
         \/ \* shutil.rmtree raises
            /\ ev' = [ev EXCEPT ![a] = @ \o <<"safe_rmtree " \o which, "rmtree " \o which,
                                               "rmtree failed">>]
            /\ fs' = fs
            /\ RmtreeRaised(a, next)

\* lines 116-117
RmTmp(a) ==
    /\ pc[a] = "rm_tmp"
    /\ SafeRmtree(a, "tmp", AfterRmTmp)
    /\ UNCHANGED <<run, prev, file, cfg, new_list, pcMain, acc_list, nsubmitted, numThreads, queue, result,
                   LOG_LOCK, log, ok, failed, outcomes, summary>>

\* lines 119-120
RmSra(a) ==
    /\ pc[a] = "rm_sra"
    /\ SafeRmtree(a, "sra", "log")
    /\ UNCHANGED <<run, prev, file, cfg, new_list, pcMain, acc_list, nsubmitted, numThreads, queue, result,
                   LOG_LOCK, log, ok, failed, outcomes, summary>>

-----------------------------------------------------------------------------
(* append_log under LOG_LOCK, and the return of process_one_accession *)

\* the msg argument of the three append_log calls (lines 106, 122, 126)
LogMsg(a) ==
    CASE rec[a] = "SKIP" -> <<"fastq already downloaded">>
      [] rec[a] = "OK" -> <<"prefetch + fasterq-dump completed">>
      [] OTHER -> Flatten(exc[a])

\* one part of the line f"{ts}\t{acc}\t{status}\t{msg}\n" as it reaches the file
Fragment(a, part) == [acc |-> a, status |-> rec[a], msg |-> LogMsg(a), part |-> part]

\* faulty variant: the skip path returns success = False
ReturnValueSkipFalse(a) ==
    CASE rec[a] = "SKIP" -> <<a, FALSE, <<"SKIP (fastq already downloaded)">>>>
      [] rec[a] = "OK" -> <<a, TRUE, <<"OK">>>>
      [] OTHER -> <<a, FALSE, exc[a]>>

\* the tuple returned at lines 107, 123 and 127
ReturnValue(a) ==
    CASE rec[a] = "SKIP" -> <<a, TRUE, <<"SKIP (fastq already downloaded)">>>>
      [] rec[a] = "OK" -> <<a, TRUE, <<"OK">>>>
      [] OTHER -> <<a, FALSE, exc[a]>>

\* faulty variant: the with statement does not wait for the lock
LockFreeAlways(holder) == TRUE

\* with LOG_LOCK: blocks until the lock is free
LockFree(holder) == holder = NoAcc

LogAcquire(a) ==
    /\ pc[a] = "log"
    /\ LockFree(LOG_LOCK)
    /\ LOG_LOCK' = a
    /\ pc' = [pc EXCEPT ![a] = "locked"]
    /\ UNCHANGED <<run, prev, file, cfg, new_list, pcMain, acc_list, nsubmitted, numThreads, queue, fs, ev, exc,
                   rec, result, log, ok, failed, outcomes, summary>>

\* open(log_path, "a") and the first part of the line; a failure leaves the with
\* blocks, releasing the lock, and is caught only inside the try block (the OK record)
LogWrite(a) ==
    /\ pc[a] = "locked"
    /\ \/ /\ log' = Append(log, Fragment(a, "head"))
          /\ ev' = [ev EXCEPT ![a] = Append(@, "log " \o rec[a])]
          /\ pc' = [pc EXCEPT ![a] = "writing"]
          /\ UNCHANGED <<LOG_LOCK, exc, rec>>
       \/ /\ LOG_LOCK' = NoAcc
          /\ ev' = [ev EXCEPT ![a] = Append(@, "log failed " \o rec[a])]
          /\ log' = log
          /\ IF rec[a] = "OK"
             THEN Except(a, OSErrorOf("open"))
             ELSE /\ exc' = [exc EXCEPT ![a] = OSErrorOf("open")]
                  /\ pc' = [pc EXCEPT ![a] = "raised"]
                  /\ rec' = rec
    /\ UNCHANGED <<run, prev, file, cfg, new_list, pcMain, acc_list, nsubmitted, numThreads, queue, fs, result,
                   ok, failed, outcomes, summary>>

\* the rest of the line, leaving the with blocks, and the return statement
LogClose(a) ==
    /\ pc[a] = "writing"
    /\ log' = Append(log, Fragment(a, "tail"))
    /\ LOG_LOCK' = NoAcc
    /\ result' = [result EXCEPT ![a] = ReturnValue(a)]
    /\ pc' = [pc EXCEPT ![a] = "returned"]
    /\ UNCHANGED <<run, prev, file, cfg, new_list, pcMain, acc_list, nsubmitted, numThreads, queue, fs, ev, exc,
                   rec, ok, failed, outcomes, summary>>

-----------------------------------------------------------------------------
(* main(): the as_completed loop and the summary *)

\* the futures as_completed has already yielded
Yielded == {outcomes[i][1] : i \in 1..Len(outcomes)}

\* lines 203-210: the next completed future; fut.result() re-raises what the call raised
Collect(a) ==
    /\ pcMain = "collect"
    /\ a \notin Yielded
    /\ pc[a] \in FinishedPcs
    /\ IF pc[a] = "returned"
       THEN /\ outcomes' = Append(outcomes, result[a])
            /\ ok' = IF result[a][2] THEN ok + 1 ELSE ok
            /\ failed' = IF result[a][2] THEN failed ELSE failed + 1
            /\ pcMain' = pcMain
       ELSE /\ pcMain' = "aborting"
            /\ UNCHANGED <<outcomes, ok, failed>>
    /\ UNCHANGED <<run, prev, file, cfg, new_list, acc_list, nsubmitted, numThreads, queue, pc, fs, ev, exc, rec,
                   result, LOG_LOCK, log, summary>>

\* faulty variant: the loop ends as soon as one future has been yielded
LoopDoneAfterFirst == outcomes # <<>>

\* as_completed is exhausted when every future has been yielded
LoopDone == \A a \in Range(acc_list) : a \in Yielded

\* line 211, after the with block has shut the executor down
Summary ==
    /\ pcMain = "collect"
    /\ LoopDone
    /\ summary' = <<ok, failed, Len(acc_list)>>
    /\ pcMain' = "done"
    /\ UNCHANGED <<run, prev, file, cfg, new_list, acc_list, nsubmitted, numThreads, queue, pc, fs, ev, exc, rec,
                   result, LOG_LOCK, log, ok, failed, outcomes>>

\* an exception leaves the with block: shutdown(wait=True) lets every submitted
\* call finish, then main() ends with the exception
Abort ==
    /\ pcMain = "aborting"
    /\ \A a \in Range(acc_list) : pc[a] \in FinishedPcs
    /\ pcMain' = "aborted"
    /\ UNCHANGED <<run, prev, file, cfg, new_list, acc_list, nsubmitted, numThreads, queue, pc, fs, ev, exc, rec,
                   result, LOG_LOCK, log, ok, failed, outcomes, summary>>

-----------------------------------------------------------------------------
(* The pipeline specification *)

\* the steps of a run once the list is prepared
NextRun ==
    \/ Submit
    \/ \E a \in Accs : Start(a)
    \/ \E a \in Accs : Prefetch(a)
    \/ \E a \in Accs : FasterqDump(a)
    \/ \E a \in Accs : RmTmp(a)
    \/ \E a \in Accs : RmSra(a)
    \/ \E a \in Accs : LogAcquire(a)
    \/ \E a \in Accs : LogWrite(a)
    \/ \E a \in Accs : LogClose(a)
    \/ \E a \in Accs : Collect(a)
    \/ Summary
    \/ Abort

Next == Prepare \/ NextRun

Spec == Init /\ [][Next]_vars


-----------------------------------------------------------------------------
(* The re-run specification: main() is run again over the same accession     *)
(* file once it has ended; the directories and the log stay as they were left *)

\* main() has ended: normally, with nothing to do, or with an exception
MainEnded == pcMain \in {"done", "no_accessions", "aborted"}

\* the operator starts main() again, perhaps after editing the flags (lines 163-171)
Rerun ==
    /\ MainEnded
    /\ run < MaxRuns
    /\ run' = run + 1
    /\ prev' = [a \in Accs |-> [fs |-> fs[a], pc |-> pc[a], rec |-> rec[a],
                                 result |-> result[a], dry_run |-> cfg.dry_run]]
    /\ cfg' \in {c \in Configs : c.jobs = cfg.jobs}
    /\ pcMain' = "start"
    /\ new_list' = <<>>
    /\ acc_list' = <<>>
    /\ nsubmitted' = 0
    /\ numThreads' = 0
    /\ queue' = <<>>
    /\ pc' = [a \in Accs |-> "unsubmitted"]
    /\ ev' = [a \in Accs |-> <<>>]
    /\ exc' = [a \in Accs |-> <<>>]
    /\ rec' = [a \in Accs |-> ""]
    /\ result' = [a \in Accs |-> <<>>]
    /\ ok' = 0
    /\ failed' = 0
    /\ outcomes' = <<>>
    /\ summary' = <<>>
    /\ UNCHANGED <<file, fs, LOG_LOCK, log>>

\* one accession in the file, one worker thread
InitRerun ==
    /\ file = FirstLines(1)
    /\ cfg \in {c \in Configs : c.jobs = 1}
    /\ fs \in [AccsOf(file) -> InitFs]
    /\ InitRun

NextRerun == Next \/ Rerun

SpecRerun == InitRerun /\ [][NextRerun]_vars

-----------------------------------------------------------------------------
(* The input-preparation specification: main() up to the prepared list, over *)
(* input files put together from a few pieces                                *)

Pieces ==
    { <<"S", "R", "R", "1">>, <<"e", "r", "r", "2">>, <<"S", "R", "R", "u0663">>,
      <<"S", "R", "R">>, <<"B", "A", "D", "9">>, <<" ">>, <<"LF">>, <<"#">> }

RECURSIVE FilesOf(_)
FilesOf(n) ==
    IF n = 0 THEN {<<>>}
    ELSE LET shorter == FilesOf(n - 1)
         IN  shorter \cup {f \o p : f \in shorter, p \in Pieces}

\* "SRR123" / "ERR456  # note" / "BAD999" / "SRR123"
ExampleFile ==
    <<"S", "R", "R", "1", "2", "3", "LF",
      "E", "R", "R", "4", "5", "6", " ", " ", "#", " ", "n", "o", "t", "e", "LF",
      "B", "A", "D", "9", "9", "9", "LF",
      "S", "R", "R", "1", "2", "3", "LF">>

PrepFiles == FilesOf(MaxPieces) \cup {ExampleFile}

\* the settings as main() has them (lines 163-171)
MainConfig == [dry_run |-> FALSE, delete_tmp_after |-> TRUE, delete_sra_after |-> TRUE,
               jobs |-> MaxJobs]

InitPrep ==
    /\ file \in PrepFiles
    /\ cfg = MainConfig
    /\ fs = [a \in AccsOf(file) |-> FreshFs]
    /\ InitRun

NextPrep == Prepare

SpecPrep == InitPrep /\ [][NextPrep]_vars

-----------------------------------------------------------------------------
(* The deduplication specification: main() up to the prepared list, over     *)
(* input files that hold every sequence of a few valid identifiers           *)

RECURSIVE SeqsUpTo(_, _)
SeqsUpTo(S, n) ==
    IF n = 0 THEN {<<>>}
    ELSE LET shorter == SeqsUpTo(S, n - 1)
         IN  shorter \cup {Append(q, x) : q \in shorter, x \in S}

\* the file with one of the given identifiers per line
RECURSIVE OnePerLine(_)
OnePerLine(ids) ==
    IF ids = <<>> THEN <<>> ELSE Head(ids) \o <<"LF">> \o OnePerLine(Tail(ids))

DedupFiles == {OnePerLine(ids) : ids \in SeqsUpTo(Range(AccTexts), MaxItems)}

InitDedup ==
    /\ file \in DedupFiles
    /\ cfg = MainConfig
    /\ fs = [a \in AccsOf(file) |-> FreshFs]
    /\ InitRun

NextDedup == Prepare

SpecDedup == InitDedup /\ [][NextDedup]_vars

-----------------------------------------------------------------------------
(* The reference result of input preparation, stated position by position *)

\* the n-th smallest element of a set of numbers
Nth(S, n) == CHOOSE i \in S : Cardinality({j \in S : j < i}) = n - 1

\* the elements of s at the positions in P, in order
AtPositions(s, P) == [n \in 1..Cardinality(P) |-> s[Nth(P, n)]]

\* the white-space-separated tokens of s
RefTokens(s) ==
    LET starts == {i \in 1..Len(s) : ~IsSpace(s[i]) /\ (i = 1 \/ IsSpace(s[i - 1]))}
        EndOf(i) == CHOOSE j \in i..Len(s) :
                       /\ \A k \in i..j : ~IsSpace(s[k])
                       /\ (j = Len(s) \/ IsSpace(s[j + 1]))
    IN  [n \in 1..Cardinality(starts) |-> SubSeq(s, Nth(starts, n), EndOf(Nth(starts, n)))]

\* s up to the first "#"
RefUncommented(s) ==
    LET hashes == {i \in 1..Len(s) : s[i] = "#"}
    IN  IF hashes = {} THEN s ELSE SubSeq(s, 1, Nth(hashes, 1) - 1)

\* the tokens of every line of f, comments discarded
RECURSIVE RefFileTokens(_)
RefFileTokens(f) ==
    LET feeds == {i \in 1..Len(f) : f[i] = "LF"}
    IN  IF feeds = {} THEN RefTokens(RefUncommented(f))
        ELSE RefTokens(RefUncommented(SubSeq(f, 1, Nth(feeds, 1) - 1)))
             \o RefFileTokens(SubSeq(f, Nth(feeds, 1) + 1, Len(f)))

\* ^(SRR|ERR|DRR)[0-9]+$
RefValid(tok) ==
    /\ Len(tok) >= 4
    /\ SubSeq(tok, 1, 3) \in {<<"S", "R", "R">>, <<"E", "R", "R">>, <<"D", "R", "R">>}
    /\ \A i \in 4..Len(tok) : tok[i] \in AsciiDigit

\* first occurrences only
RefFirsts(s) == AtPositions(s, {i \in 1..Len(s) : \A j \in 1..(i - 1) : s[j] # s[i]})

ReferenceList(f) ==
    LET toks == RefFileTokens(f)
        upper == [i \in 1..Len(toks) |-> Upper(Strip(toks[i]))]
    IN  RefFirsts(AtPositions(upper, {i \in 1..Len(upper) : RefValid(upper[i])}))

\* C10: the identifier sequence main() hands to the scheduler equals the reference
\* result for the input file (tokens of each line up to the first '#', trimmed and
\* upper-cased, those matching ^(SRR|ERR|DRR)[0-9]+$ kept, first occurrences only),
\* so it holds only valid identifiers and none twice.
C10_HandedOverIsReference ==
    pcMain # "start" =>
        /\ acc_list = ReferenceList(file)
        /\ \A i \in 1..Len(acc_list) : RefValid(acc_list[i])
        /\ \A i, j \in 1..Len(acc_list) : acc_list[i] = acc_list[j] => i = j

-----------------------------------------------------------------------------
(* What the claims speak of *)

HasEv(a, e) == e \in Range(ev[a])

\* position i of the log starts a whole record: its head directly followed by its tail
WholeAt(i) ==
    /\ log[i].part = "head"
    /\ i < Len(log)
    /\ log[i + 1] = [log[i] EXCEPT !.part = "tail"]

\* the whole records of accession a, and every start of a record of a
WholeRecords(a) == {i \in 1..Len(log) : log[i].acc = a /\ WholeAt(i)}
RecordHeads(a) == {i \in 1..Len(log) : log[i].acc = a /\ log[i].part = "head"}

\* the outcomes main() has collected for accession a
OutcomesOf(a) == {i \in 1..Len(outcomes) : outcomes[i][1] = a}

\* main() has ended normally: after the summary, or with nothing to do
RunFinished == pcMain \in {"done", "no_accessions"}

\* a non-empty <acc>.fastq or a non-empty <acc>_1.fastq is on disk
DoneOnDisk(d) == d.se = "data" \/ d.pe1 = "data"

-----------------------------------------------------------------------------
(* C1 *)

\* C1: exactly-once accounting. When the run finishes, whatever mix of skip, success
\* and step failure the K pipelines ended in, main() has collected exactly K outcomes,
\* one per identifier, and the log holds exactly K records, one per identifier.
C1_ExactlyOnce ==
    RunFinished =>
        /\ Len(outcomes) = Len(acc_list)
        /\ Len(log) = 2 * Len(acc_list)
        /\ \A a \in Range(acc_list) :
              /\ Cardinality(OutcomesOf(a)) = 1
              /\ Cardinality(WholeRecords(a)) = 1
              /\ Cardinality(RecordHeads(a)) = 1

\* a finished run of two identifiers, one skipped and one failed in a step
C1_Witness ==
    /\ pcMain = "done"
    /\ Len(acc_list) = 2
    /\ \E a, b \in Accs :
          /\ rec[a] = "SKIP"
          /\ rec[b] = "FAIL" /\ HasEv(b, "exit 1")

-----------------------------------------------------------------------------
(* C2 *)

\* C2: no exception crosses the pipeline boundary. A failure raised in any state of
\* process_one_accession (the idempotency check, retrieval, conversion, cleanup, or
\* the writing of the SKIP, OK or FAIL record) ends in a FAILED outcome with a FAIL
\* record, and fut.result() never raises.
C2_NoExceptionCrosses ==
    /\ pcMain \notin {"aborting", "aborted"}
    /\ \A a \in Accs :
          /\ pc[a] # "raised"
          /\ (pc[a] \in FinishedPcs /\ exc[a] # <<>>) =>
                /\ result[a] # <<>> /\ ~result[a][2]
                /\ \E i \in WholeRecords(a) : log[i].status = "FAIL"

-----------------------------------------------------------------------------
(* C3 *)

\* the events of a pipeline on the skip path
SkipEvents == {"is_done", "log SKIP", "log failed SKIP"}

\* C3: skip path. A pipeline that finds a non-empty <acc>.fastq or <acc>_1.fastq at
\* its start runs no retrieval and no conversion command, creates no directory and
\* cleans nothing up; it writes exactly one record, a SKIP record, and returns the
\* skipped outcome (unless the log write itself fails, which ends the call with that
\* error and no record).  Only fasterq-dump writes the output files, so before it has
\* been executed the files on disk are those found at the start.
C3_SkipPath ==
    \A a \in Accs :
        (pc[a] \in RunningPcs \cup FinishedPcs /\ DoneOnDisk(fs[a])
            /\ ~HasEv(a, "exec fasterq-dump")) =>
            /\ Range(ev[a]) \subseteq SkipEvents
            /\ pc[a] \in {"log", "locked", "writing", "returned", "raised"}
            /\ rec[a] = "SKIP"
            /\ \A i \in RecordHeads(a) : log[i].status = "SKIP"
            /\ Cardinality(RecordHeads(a)) <= 1
            /\ pc[a] = "returned" =>
                  /\ result[a] = <<a, TRUE, <<"SKIP (fastq already downloaded)">>>>
                  /\ Cardinality(WholeRecords(a)) = 1
            /\ pc[a] = "raised" => HasEv(a, "log failed SKIP") /\ RecordHeads(a) = {}

\* a pipeline skipped for a non-empty <acc>_1.fastq alone has returned
C3_Witness ==
    \E a \in Accs :
        /\ pc[a] = "returned"
        /\ fs[a].pe1 = "data" /\ fs[a].se = "none"
        /\ ~HasEv(a, "exec fasterq-dump")

-----------------------------------------------------------------------------
(* C4 *)

\* C4: bounded concurrency. In every reachable state the number of
\* process_one_accession calls that have started and not yet returned or raised is at
\* most jobs, and so is the number of worker threads.
C4_BoundedConcurrency ==
    /\ Cardinality(Running) <= cfg.jobs
    /\ numThreads <= cfg.jobs

\* the limit binds: jobs calls are running while another waits in the queue
C4_Witness ==
    /\ Cardinality(Running) = cfg.jobs
    /\ queue # <<>>
    /\ pcMain = "collect"

-----------------------------------------------------------------------------
(* C5 *)

\* the callers inside the open-and-write section of append_log
InLogSection == {a \in Accs : pc[a] \in {"locked", "writing"}}

\* C5: audit log serialization. At most one caller is inside the open-and-write
\* section; every record in the log is whole, its two parts adjacent (the last one
\* may still be being written by the caller in the section); and the record of every
\* append_log call that has completed is in the log.
C5_LogSerialized ==
    /\ Cardinality(InLogSection) <= 1
    /\ \A i \in 1..Len(log) :
          /\ log[i].part = "head" =>
                \/ WholeAt(i)
                \/ i = Len(log) /\ pc[log[i].acc] = "writing" /\ LOG_LOCK = log[i].acc
          /\ log[i].part = "tail" => i > 1 /\ WholeAt(i - 1)
    /\ \A a \in Accs :
          pc[a] = "returned" =>
              \E i \in WholeRecords(a) : log[i].status = rec[a] /\ log[i].msg = LogMsg(a)

\* one caller is half-way through its record while another waits for the lock
C5_Witness ==
    \E a, b \in Accs :
        /\ pc[a] = "writing"
        /\ pc[b] = "log"
        /\ log # <<>> /\ log[Len(log)].acc = a

-----------------------------------------------------------------------------
(* C6 *)

\* retrieval or conversion of a exited non-zero
StepFailed(a) == a \in Accs /\ HasEv(a, "exit 1")

\* something went wrong in b's own pipeline before its record was written
OwnFailure(b) ==
    \/ HasEv(b, "exit 1") \/ HasEv(b, "missing sra") \/ HasEv(b, "makedirs failed")
    \/ HasEv(b, "rmtree failed") \/ HasEv(b, "log failed OK")

\* main() is ending with the exception of a call whose log write failed
AbortedByLogFailure ==
    /\ pcMain \in {"aborting", "aborted"}
    /\ \E c \in Accs : pc[c] = "raised"
                        /\ (HasEv(c, "log failed SKIP") \/ HasEv(c, "log failed FAIL"))

\* b's call is over with an outcome decided by b's own steps, and main() has
\* collected that outcome, unless a failed log write is ending the run
Settled(b) ==
    /\ pc[b] \in FinishedPcs
    /\ pc[b] = "returned" =>
          /\ result[b][1] = b
          /\ result[b][2] = ~OwnFailure(b)
          /\ (\E i \in OutcomesOf(b) : outcomes[i] = result[b]) \/ AbortedByLogFailure
    /\ pc[b] = "raised" => AbortedByLogFailure \/ pcMain = "collect"

\* Progress measure: how far main() and every call are from their end.  A failed
\* write of the OK record sends the call back to append_log with the FAIL record.
Rank(a) ==
    CASE pc[a] = "unsubmitted" -> 14
      [] pc[a] = "queued" -> 13
      [] pc[a] = "prefetch" -> 12
      [] pc[a] = "fasterq" -> 11
      [] pc[a] = "rm_tmp" -> 10
      [] pc[a] = "rm_sra" -> 9
      [] pc[a] = "log" -> (IF rec[a] = "FAIL" THEN 5 ELSE 8)
      [] pc[a] = "locked" -> (IF rec[a] = "FAIL" THEN 4 ELSE 7)
      [] pc[a] = "writing" -> (IF rec[a] = "FAIL" THEN 3 ELSE 6)
      [] OTHER -> 0

RECURSIVE SumRank(_)
SumRank(S) == IF S = {} THEN 0 ELSE LET a == CHOOSE x \in S : TRUE
                                    IN  Rank(a) + SumRank(S \ {a})

MainRank ==
    LET n == Cardinality(Accs) IN
    CASE pcMain = "start" -> 2 * n + 3
      [] pcMain = "submit" -> 2 * n + 2 - nsubmitted
      [] pcMain = "collect" -> n + 2 - Len(outcomes)
      [] pcMain = "aborting" -> 1
      [] OTHER -> 0

Measure == MainRank + SumRank(Accs)

\* no step is possible (Prepare is possible exactly when pcMain = "start")
Stuck == pcMain # "start" /\ ~(ENABLED NextRun)

\* C6: failure isolation. Once retrieval or conversion has failed for identifier a,
\* every other identifier b of the run is still started and completes with an outcome
\* that depends on b's own steps only, and main() collects it (unless a failed log
\* write ends the run).  Every step lowers the progress measure, so under fair
\* scheduling a run goes on until no step is possible; there main() has ended and
\* every sibling of a failed identifier is settled.
C6_FailureIsolation ==
    /\ [][Measure' < Measure]_vars
    /\ [](Stuck =>
            /\ MainEnded
            /\ \A a, b \in Accs : (a # b /\ StepFailed(a)) => Settled(b))
    /\ [](\A b \in Accs : pc[b] = "returned" => result[b][2] = ~OwnFailure(b))

\* a has failed in a step, its sibling b has succeeded, and both are collected
C6_Witness ==
    \E a, b \in Accs :
        /\ a # b /\ StepFailed(a) /\ ~OwnFailure(b)
        /\ pc[b] = "returned" /\ result[b][3] = <<"OK">>
        /\ pcMain = "done"

-----------------------------------------------------------------------------
(* C7 *)

ExecEvents == {"exec prefetch", "exec fasterq-dump", "rmtree tmp", "rmtree sra"}

\* every identifier of the list has one collected outcome and one whole record
OneOutcomeOneRecord ==
    \A a \in Range(acc_list) :
        /\ Cardinality(OutcomesOf(a)) = 1
        /\ Cardinality(WholeRecords(a)) = 1
        /\ Cardinality(RecordHeads(a)) = 1

\* C7 as claimed: with dry_run, no external command is executed and nothing is
\* deleted, every identifier gets one outcome and one log record, and the output and
\* working directories of every identifier are created.
C7_DryRunAllDirsCreated ==
    cfg.dry_run =>
        /\ \A a \in Accs : Range(ev[a]) \cap ExecEvents = {}
        /\ pcMain = "done" =>
              /\ OneOutcomeOneRecord
              /\ \A a \in Range(acc_list) : fs[a].outDir /\ fs[a].tmpDir

\* C7 as amended: with dry_run, no external command is executed, no step deletes a
\* directory or changes a file, every identifier of a finished run has one outcome
\* and one log record, and the output and working directories are created for every
\* identifier that is not skipped and whose os.makedirs does not fail (a skipped
\* identifier reaches no directory creation, in dry mode as in real mode).
C7_DryRunFidelity ==
    /\ [](cfg.dry_run =>
            /\ \A a \in Accs : Range(ev[a]) \cap ExecEvents = {}
            /\ pcMain = "done" => OneOutcomeOneRecord
            /\ \A a \in Accs :
                  /\ HasEv(a, "makedirs") => fs[a].outDir /\ fs[a].tmpDir
                  /\ (pc[a] \in FinishedPcs /\ rec[a] # "SKIP"
                        /\ ~HasEv(a, "makedirs failed")) => HasEv(a, "makedirs"))
    /\ [][cfg.dry_run =>
            \A a \in Accs :
                /\ fs'[a].se = fs[a].se /\ fs'[a].pe1 = fs[a].pe1 /\ fs'[a].sra = fs[a].sra
                /\ fs[a].outDir => fs'[a].outDir
                /\ fs[a].tmpDir => fs'[a].tmpDir
                /\ fs[a].sraDir => fs'[a].sraDir]_vars

\* a finished dry run: one identifier skipped, the other through both cleanups with
\* its archive-cache subtree still there
C7_Witness ==
    /\ cfg.dry_run /\ pcMain = "done"
    /\ \E a, b \in Accs :
          /\ rec[b] = "SKIP"
          /\ result[a][3] = <<"OK">>
          /\ HasEv(a, "safe_rmtree tmp") /\ HasEv(a, "safe_rmtree sra")
          /\ fs[a].sraDir /\ fs[a].tmpDir

-----------------------------------------------------------------------------
(* C8 *)

\* the conversion command of a was executed and exited non-zero
ConvFailed(a) ==
    \E i \in 1..(Len(ev[a]) - 1) : ev[a][i] = "exec fasterq-dump" /\ ev[a][i + 1] = "exit 1"

CleanupEvents == {"safe_rmtree tmp", "safe_rmtree sra", "rmtree tmp", "rmtree sra"}

\* C8: conversion failure path. When the conversion command exits non-zero with
\* stderr E, no cleanup is invoked (the working and archive-cache subtrees stay),
\* no OK record is written, the only record is one FAIL record, and the call returns
\* FAILED with a message containing E, whatever the two delete flags are (when the
\* write of the FAIL record fails, the call raises that error instead).
C8_ConversionFailure ==
    \A a \in Accs :
        ConvFailed(a) =>
            /\ Range(ev[a]) \cap CleanupEvents = {}
            /\ fs[a].tmpDir /\ fs[a].sraDir /\ fs[a].sra
            /\ ~HasEv(a, "log OK")
            /\ \A i \in RecordHeads(a) : log[i].status = "FAIL"
            /\ Cardinality(RecordHeads(a)) <= 1
            /\ rec[a] = "FAIL"
            /\ pc[a] \in {"log", "locked", "writing", "returned", "raised"}
            /\ pc[a] = "returned" =>
                  /\ ~result[a][2]
                  /\ \E E \in Stderrs :
                        /\ Contains(result[a][3], E)
                        /\ \E i \in WholeRecords(a) : Contains(log[i].msg, Flatten(E))
                  /\ Cardinality(WholeRecords(a)) = 1
            /\ pc[a] = "raised" => HasEv(a, "log failed FAIL")

\* a conversion failure has been returned as FAILED with both delete flags set
C8_Witness ==
    \E a \in Accs :
        /\ ConvFailed(a) /\ pc[a] = "returned"
        /\ cfg.delete_tmp_after /\ cfg.delete_sra_after

-----------------------------------------------------------------------------
(* C9 *)

\* an append_log call of a's pipeline failed to write its record
LogWriteFailed(a) ==
    HasEv(a, "log failed SKIP") \/ HasEv(a, "log failed OK") \/ HasEv(a, "log failed FAIL")

\* C9: a log write failure is fatal. After an append_log call has failed, for a SKIP,
\* OK or FAIL record, the call does not return a per-item outcome and the run does
\* not reach its normal summary.
C9_LogFailureFatal ==
    \A a \in Accs :
        LogWriteFailed(a) => pc[a] # "returned" /\ pcMain # "done"

-----------------------------------------------------------------------------
(* C11 *)

\* the position of the first occurrence of x in s
FirstAt(s, x) == CHOOSE i \in 1..Len(s) : s[i] = x /\ \A j \in 1..(i - 1) : s[j] # x

\* C11: deduplicator. For the validated list new_list, the list acc_list that
\* dedup_preserve_order returns has no repeated element, holds exactly the distinct
\* elements of new_list, orders them by the position of their first occurrence in
\* new_list, and is no longer than new_list.
C11_Deduplicator ==
    pcMain # "start" =>
        /\ \A i, j \in 1..Len(acc_list) : acc_list[i] = acc_list[j] => i = j
        /\ Range(acc_list) = Range(new_list)
        /\ \A i, j \in 1..Len(acc_list) :
              i < j => FirstAt(new_list, acc_list[i]) < FirstAt(new_list, acc_list[j])
        /\ Len(acc_list) <= Len(new_list)

\* a list with a repeat that is not next to its first occurrence, and a repeat that is
C11_Witness ==
    /\ pcMain # "start"
    /\ Len(new_list) = 4 /\ Len(acc_list) = 2
    /\ new_list[1] = new_list[3] /\ new_list[1] # new_list[2]
    /\ new_list[3] = new_list[4]

-----------------------------------------------------------------------------
(* C12 *)

\* the whole record of a that tells what the collected outcome i tells
RecordOfOutcome(a, i) ==
    {k \in WholeRecords(a) : (log[k].status \in {"SKIP", "OK"}) = outcomes[i][2]}

\* C12: exit ordering. The summary line is printed only when every identifier handed
\* to the executor has its record whole in the log and its outcome collected; and
\* whenever main() holds the outcome of an identifier, that identifier's call has
\* returned and its record is already whole in the log (the log is only appended to,
\* so the record was written before the outcome was collected).
C12_ExitOrdering ==
    /\ (pcMain = "done" \/ summary # <<>>) =>
          /\ pcMain = "done" /\ summary # <<>>
          /\ \A a \in Range(acc_list) :
                /\ OutcomesOf(a) # {}
                /\ WholeRecords(a) # {}
                /\ pc[a] = "returned"
    /\ \A a \in Accs :
          \A i \in OutcomesOf(a) :
              /\ pc[a] = "returned"
              /\ RecordOfOutcome(a, i) # {}
              /\ LOG_LOCK # a

\* a finished run of two identifiers whose outcomes were collected in the order
\* opposite to their submission
C12_Witness ==
    /\ pcMain = "done"
    /\ Len(acc_list) = 2 /\ Len(outcomes) = 2
    /\ outcomes[1][1] = acc_list[2]

-----------------------------------------------------------------------------
(* C13 *)

\* C13: summary always reported. Every run of main() that has ended without a fatal
\* error has printed the final line with the succeeded, failed and total counts, also
\* when the validated and deduplicated list is empty (total 0).
C13_SummaryAlways ==
    (MainEnded /\ pcMain # "aborted") =>
        /\ summary = <<ok, failed, Len(acc_list)>>
        /\ ok + failed = Len(acc_list)

-----------------------------------------------------------------------------
(* C14 *)

\* the run before this one ended a's pipeline in failure, or was a dry run
FirstFailed(a) ==
    \/ prev[a].pc = "raised"
    \/ prev[a].pc = "returned" /\ ~prev[a].result[2]
FirstDry(a) == prev[a].dry_run /\ prev[a].pc \in FinishedPcs

\* a's pipeline of this run has made its is_done call; it went the skip way
Started(a) == HasEv(a, "is_done")
Skipped(a) == rec[a] = "SKIP"

\* a's pipeline of this run is past its retrieval step, which it has invoked
ProcessedInFull(a) ==
    /\ ~Skipped(a)
    /\ pc[a] \notin {"unsubmitted", "queued", "prefetch"} => HasEv(a, "run_command prefetch")

\* what the re-run gate looks at: in a second run, a pipeline that has started is
\* skipped if and only if a non-empty <acc>.fastq or <acc>_1.fastq was on disk when
\* the run began (nothing but a's own pipeline touches a's subtrees after that), and
\* an empty output file or a missing output directory gives not-done without error
GateOnDiskOnly(a) ==
    /\ Skipped(a) <=> DoneOnDisk(prev[a].fs)
    /\ (ev[a] = <<"is_done">> /\ ~DoneOnDisk(prev[a].fs)) =>
          pc[a] = "prefetch" /\ exc[a] = <<>>

\* C14 as claimed: re-run gate. In the second of two consecutive runs an identifier is
\* skipped if and only if a non-empty output file is on disk when its pipeline
\* starts, an empty file or a missing directory gives not-done without error, and an
\* identifier whose first run failed or was a dry run is processed again in full.
C14_FailedOrDryIsReprocessed ==
    run > 1 =>
        \A a \in Accs :
            Started(a) =>
                /\ GateOnDiskOnly(a)
                /\ (FirstFailed(a) \/ FirstDry(a)) => ProcessedInFull(a)

\* C14 as amended: the gate looks at the disk only.  An identifier whose first run
\* failed or was a dry run is processed again in full exactly when that run left no
\* non-empty output file; a dry run that did not skip the identifier leaves none.  A
\* first run that failed after its conversion had succeeded leaves the output file,
\* and the second run skips the identifier.
C14_ReRunGate ==
    run > 1 =>
        \A a \in Accs :
            /\ (FirstDry(a) /\ prev[a].rec \in {"OK", "FAIL"}) => ~DoneOnDisk(prev[a].fs)
            /\ Started(a) =>
                  /\ GateOnDiskOnly(a)
                  /\ ((FirstFailed(a) \/ FirstDry(a)) /\ ~DoneOnDisk(prev[a].fs)) =>
                        ProcessedInFull(a)
                  /\ ((FirstFailed(a) \/ FirstDry(a)) /\ DoneOnDisk(prev[a].fs)) =>
                        Skipped(a)

\* the first run left an empty output file and failed; the second run has processed
\* the identifier again and returned OK
C14_Witness ==
    /\ run = 2
    /\ \E a \in Accs :
          /\ FirstFailed(a) /\ prev[a].fs.se = "empty"
          /\ pc[a] = "returned" /\ result[a][3] = <<"OK">>
          /\ HasEv(a, "exec prefetch")

-----------------------------------------------------------------------------
(* C15 *)

\* what a pipeline does in its conversion step, its cleanups and for its OK record
ConvEvents == {"makedirs", "makedirs failed", "missing sra", "run_command fasterq-dump",
               "exec fasterq-dump"}
OkRecordEvents == {"log OK", "log failed OK"}

\* the calls of a's pipeline before its i-th
Before(a, i) == SubSeq(ev[a], 1, i - 1)

\* what a pipeline has done when retrieval has returned success (in a dry run the
\* command is not executed), and from there when conversion has returned success
RetrievalReturned ==
    IF cfg.dry_run THEN <<"is_done", "run_command prefetch">>
    ELSE <<"is_done">> \o Executed("prefetch", 0)
ConversionReturned ==
    RetrievalReturned \o
        (IF cfg.dry_run THEN <<"makedirs", "run_command fasterq-dump">>
         ELSE <<"makedirs">> \o Executed("fasterq-dump", 0))

\* s begins with t
StartsWith(s, t) == Len(s) >= Len(t) /\ SubSeq(s, 1, Len(t)) = t

\* the retrieval command of a was executed and exited non-zero
RetrFailed(a) == StartsWith(ev[a], <<"is_done">> \o Executed("prefetch", 1))

\* C15: step ordering within one pipeline. Conversion starts only after the retrieval
\* of the same identifier has returned success; a cleanup starts only after the
\* conversion has returned success (the working subtree's before the archive
\* cache's); the OK record is written only after every configured cleanup has
\* returned; after a failed retrieval the pipeline does nothing but write its FAIL
\* record: no conversion, no directory creation, no cleanup.
C15_StepOrdering ==
    \A a \in Accs :
        /\ \A i \in 1..Len(ev[a]) :
              /\ ev[a][i] \in ConvEvents => StartsWith(Before(a, i), RetrievalReturned)
              /\ ev[a][i] \in CleanupEvents =>
                    /\ StartsWith(Before(a, i), ConversionReturned)
                    /\ "rmtree failed" \notin Range(Before(a, i))
              /\ ev[a][i] = "safe_rmtree tmp" => "safe_rmtree sra" \notin Range(Before(a, i))
              /\ ev[a][i] \in OkRecordEvents =>
                    /\ StartsWith(Before(a, i), ConversionReturned)
                    /\ "rmtree failed" \notin Range(Before(a, i))
                    /\ cfg.delete_tmp_after => "safe_rmtree tmp" \in Range(Before(a, i))
                    /\ cfg.delete_sra_after => "safe_rmtree sra" \in Range(Before(a, i))
        /\ RetrFailed(a) =>
              /\ Range(ev[a]) \cap (ConvEvents \cup CleanupEvents \cup OkRecordEvents) = {}
              /\ rec[a] = "FAIL"
              /\ pc[a] \in {"log", "locked", "writing", "returned", "raised"}
              /\ pc[a] = "returned" => ~result[a][2]

\* a real run has taken an identifier through retrieval, conversion and both
\* cleanups to its OK record, while another identifier failed in retrieval
C15_Witness ==
    \E a, b \in Accs :
        /\ ~cfg.dry_run
        /\ pc[a] = "returned" /\ HasEv(a, "log OK")
        /\ HasEv(a, "rmtree tmp") /\ HasEv(a, "rmtree sra")
        /\ RetrFailed(b) /\ pc[b] = "returned"

-----------------------------------------------------------------------------
(* C16 *)

\* a's pipeline has returned OK in a real run
ReturnedOk(a) == ~cfg.dry_run /\ pc[a] = "returned" /\ result[a] = <<a, TRUE, <<"OK">>>>

\* the flag that gates the cleanup of a subtree, and the position of that cleanup
DeleteFlag(which) == IF which = "tmp" THEN cfg.delete_tmp_after ELSE cfg.delete_sra_after
CleanupPc(which) == IF which = "tmp" THEN "rm_tmp" ELSE "rm_sra"

\* C16: cleanup gating. When process_one_accession has returned OK in a real run
\* (both subtrees exist after retrieval and conversion), <tmp>/<acc> has been deleted
\* if and only if delete_tmp_after is set and <sra>/<acc> if and only if
\* delete_sra_after is set, each flag on its own; the output files stay.  A subtree
\* is deleted only by the safe_rmtree call its flag gates, in a real run; and
\* safe_rmtree on an absent path changes nothing and raises nothing.
C16_CleanupGating ==
    /\ [](\A a \in Accs :
            ReturnedOk(a) =>
                /\ DoneOnDisk(fs[a]) /\ fs[a].outDir
                /\ \A which \in {"tmp", "sra"} :
                      /\ HasEv(a, "rmtree " \o which) <=> DeleteFlag(which)
                      /\ HasEv(a, "safe_rmtree " \o which) <=> DeleteFlag(which)
                      /\ DirExists(fs[a], which) <=> ~DeleteFlag(which))
    /\ [][\A a \in Accs :
            \A which \in {"tmp", "sra"} :
                /\ (DirExists(fs[a], which) /\ ~DirExists(fs'[a], which)) =>
                      /\ pc[a] = CleanupPc(which) /\ DeleteFlag(which) /\ ~cfg.dry_run
                      /\ fs'[a] = Removed(fs[a], which)
                /\ (pc[a] = CleanupPc(which) /\ ~DirExists(fs[a], which)) =>
                      /\ fs'[a] = fs[a]
                      /\ exc'[a] = exc[a]
                      /\ pc'[a] \in {pc[a], "rm_sra", "log"}]_vars

\* a real run has returned OK with the working subtree deleted and the archive cache
\* kept, as the flags say
C16_Witness ==
    \E a \in Accs :
        /\ ReturnedOk(a)
        /\ cfg.delete_tmp_after /\ ~cfg.delete_sra_after
        /\ ~fs[a].tmpDir /\ fs[a].sraDir /\ fs[a].sra

-----------------------------------------------------------------------------
(* C17 *)

\* shutil.rmtree raised in a's cleanup of the given subtree
CleanupFailed(a, which) ==
    \E i \in 1..(Len(ev[a]) - 1) :
        ev[a][i] = "rmtree " \o which /\ ev[a][i + 1] = "rmtree failed"

\* C17: a cleanup failure is the item's failure. When the cleanup of the working
\* subtree raises after a successful conversion, the cleanup of the archive cache is
\* not attempted; after a failure of either cleanup no OK record is written, the only
\* record is one FAIL record and the call returns FAILED with the error of the
\* cleanup, while the converted output files and the subtree that could not be
\* deleted stay (when the write of the FAIL record fails, the call raises that error
\* instead).
C17_CleanupFailure ==
    \A a \in Accs :
        \A which \in {"tmp", "sra"} :
            CleanupFailed(a, which) =>
                /\ StartsWith(ev[a], ConversionReturned)
                /\ which = "tmp" => ~HasEv(a, "safe_rmtree sra") /\ ~HasEv(a, "rmtree sra")
                /\ Range(ev[a]) \cap OkRecordEvents = {}
                /\ DoneOnDisk(fs[a]) /\ DirExists(fs[a], which)
                /\ rec[a] = "FAIL" /\ exc[a] # <<>>
                /\ \A i \in RecordHeads(a) : log[i].status = "FAIL"
                /\ Cardinality(RecordHeads(a)) <= 1
                /\ pc[a] \in {"log", "locked", "writing", "returned", "raised"}
                /\ pc[a] = "returned" =>
                      /\ result[a] = <<a, FALSE, OSErrorOf("rmtree")>>
                      /\ Cardinality(WholeRecords(a)) = 1
                /\ pc[a] = "raised" => HasEv(a, "log failed FAIL")

\* one identifier has returned FAILED after its working-subtree cleanup raised,
\* another after its archive-cache cleanup raised
C17_Witness ==
    \E a, b \in Accs :
        /\ CleanupFailed(a, "tmp") /\ pc[a] = "returned"
        /\ CleanupFailed(b, "sra") /\ pc[b] = "returned"

-----------------------------------------------------------------------------
(* C18 *)

\* a's conversion step found no archive object
FoundNoSra(a) == HasEv(a, "missing sra")
ConvCommandEvents == {"run_command fasterq-dump", "exec fasterq-dump"}

\* C18: missing archive object. In a real run, when <sra>/<acc>/<acc>.sra does not
\* exist as the conversion step is reached, the conversion command is never invoked,
\* both directories <out>/<acc> and <tmp>/<acc> have been created, and the pipeline
\* writes a FAIL record and returns FAILED with the missing-file error (when the
\* write of the FAIL record fails, the call raises that error instead); the command
\* is executed only with the archive object on disk.  In a dry run the check is
\* skipped: the conversion step goes through without the archive object.
C18_MissingArchive ==
    \A a \in Accs :
        /\ FoundNoSra(a) =>
              /\ ~cfg.dry_run
              /\ StartsWith(ev[a], RetrievalReturned \o <<"makedirs", "missing sra">>)
              /\ Range(ev[a]) \cap (ConvCommandEvents \cup CleanupEvents \cup OkRecordEvents)
                    = {}
              /\ fs[a].outDir /\ fs[a].tmpDir /\ ~fs[a].sra
              /\ rec[a] = "FAIL"
              /\ pc[a] # "raised" => exc[a] = MissingSra
              /\ \A i \in RecordHeads(a) : log[i].status = "FAIL"
              /\ pc[a] \in {"log", "locked", "writing", "returned", "raised"}
              /\ pc[a] = "returned" =>
                    /\ result[a] = <<a, FALSE, MissingSra>>
                    /\ Cardinality(WholeRecords(a)) = 1
              /\ pc[a] = "raised" => HasEv(a, "log failed FAIL")
        /\ (HasEv(a, "exec fasterq-dump") /\ ~HasEv(a, "rmtree sra")) => fs[a].sra
        /\ (~cfg.dry_run /\ HasEv(a, "makedirs") /\ ~fs[a].sra /\ ~HasEv(a, "rmtree sra")) =>
              FoundNoSra(a)
        /\ (cfg.dry_run /\ HasEv(a, "makedirs")) =>
              /\ ~FoundNoSra(a)
              /\ StartsWith(ev[a], ConversionReturned)
              /\ pc[a] \notin {"prefetch", "fasterq"}

\* a real run whose retrieval exited 0 without leaving the archive object has
\* returned FAILED, its two directories created by this run
C18_Witness ==
    \E a \in Accs :
        /\ FoundNoSra(a) /\ pc[a] = "returned"
        /\ fs[a].outDir /\ fs[a].tmpDir /\ fs[a].sraDir
        /\ fs[a].se = "none" /\ fs[a].pe1 = "none"

-----------------------------------------------------------------------------
(* C19 *)

\* the step taken is one of a's pipeline
PipelineStep(a) == pc[a] \in RunningPcs \cup {"queued"} /\ pc'[a] # pc[a]

\* the positions at which a pipeline calls prefetch, os.makedirs, fasterq-dump or
\* shutil.rmtree
FsPcs == {"prefetch", "fasterq", "rm_tmp", "rm_sra"}

-----------------------------------------------------------------------------
(* C20 *)

\* the collected outcomes with the given success flag
Collected(flag) == {i \in 1..Len(outcomes) : outcomes[i][2] = flag}

\* a's record in the log is a FAIL record
FailRecorded(a) == \E k \in WholeRecords(a) : log[k].status = "FAIL"

\* C20: tally invariant. At every point of the collection loop ok + failed is the
\* number of outcomes collected so far, ok counting the successes and failed the
\* failures, whatever the order of completion; the summary line has ok, failed and
\* the total, with ok + failed equal to the total; a skipped identifier is counted in
\* ok; and a collected identifier is counted in failed if and only if its log record
\* is a FAIL record.
C20_Tally ==
    /\ ok = Cardinality(Collected(TRUE))
    /\ failed = Cardinality(Collected(FALSE))
    /\ ok + failed = Len(outcomes)
    /\ Len(outcomes) <= Len(acc_list)
    /\ summary # <<>> =>
          /\ summary = <<ok, failed, Len(acc_list)>>
          /\ ok + failed = Len(acc_list)
          /\ failed = Cardinality({a \in Range(acc_list) : FailRecorded(a)})
    /\ \A a \in Accs :
          \A i \in OutcomesOf(a) :
              /\ outcomes[i] = result[a]
              /\ rec[a] = "SKIP" => i \in Collected(TRUE)
              /\ i \in Collected(FALSE) <=> FailRecorded(a)
              /\ i \in Collected(FALSE) <=> rec[a] = "FAIL"

\* the identifier submitted second has been collected first, as a failure, while the
\* first one, skipped, has returned and is not yet collected
C20_Witness ==
    /\ pcMain = "collect"
    /\ Len(acc_list) = 2 /\ Len(outcomes) = 1
    /\ outcomes[1][1] = acc_list[2] /\ failed = 1 /\ ok = 0
    /\ pc[acc_list[1]] = "returned" /\ rec[acc_list[1]] = "SKIP"

====
